---- MODULE Spec2Model ----
(***************************************************************************)
(* Model of the Wintun ring-buffer backend of package water                *)
(* (src/unnamed/part_000): creation (CreateTUNWithRequestedGUID,           *)
(* openTunDev), the I/O calls Read, Write and LUID, Close, ForceMTU and    *)
(* the event channel.                                                      *)
(*                                                                         *)
(* Library semantics used:                                                 *)
(*  - atomic.Value: a Value nobody stored to holds nil; Load returns the   *)
(*    stored interface value; x.(bool) on a nil interface panics.          *)
(*  - sync.WaitGroup: one atomic state word holding the counter and the    *)
(*    number of waiters, and a semaphore. Add(delta) adds to the counter   *)
(*    atomically; it panics when the counter becomes negative, and when    *)
(*    delta > 0 meets waiters with the counter equal to delta ("Add called *)
(*    concurrently with Wait"). The Add that brings the counter to zero    *)
(*    with waiters present re-reads the state (panic if it changed),       *)
(*    stores zero and releases the semaphore once per waiter. Wait returns *)
(*    when it reads a zero counter; otherwise it registers as a waiter,    *)
(*    sleeps on the semaphore and on waking panics unless the state is     *)
(*    zero ("WaitGroup is reused before previous Wait has returned").      *)
(*    Done is Add(-1).                                                     *)
(*  - sync.Once: the first Do runs f holding the Once's mutex, every other *)
(*    Do that starts before f has finished blocks until it has, every     *)
(*    later Do returns at once. A Do whose f panics marks the Once done.   *)
(*  - a buffered channel of capacity EventCap: a send blocks while the     *)
(*    buffer is full, a send on a closed channel panics, closing a closed  *)
(*    channel panics.                                                      *)
(*  - defer: the deferred running.Done() runs after the result of the call *)
(*    is fixed, on a normal return and while a panic unwinds.              *)
(*  - the readWait handle is an auto-reset event: SetEvent leaves it       *)
(*    signaled until one WaitForSingleObject consumes the signal.          *)
(***************************************************************************)
EXTENDS Integers, Sequences, FiniteSets, TLC

VARIABLES
    handle,       \* TRUE once a caller holds a usable *NativeTun / Interface
    createResult, \* what the creation call returned
    wt,           \* NativeTun.wt, the adapter: "none" | "open" | "closed"
    session,      \* NativeTun.session: "none" | "active" | "ended"
    readWait,     \* NativeTun.readWait: TRUE while the event is signaled
    events,       \* NativeTun.events: the buffered events of the channel
    eventsOpen,   \* "none" | "open" | "closed": the channel itself
    close,        \* NativeTun.close (atomic.Value): "nil" | "true" | "false"
    running,      \* NativeTun.running (sync.WaitGroup): its counter
    once,         \* NativeTun.closeOnce: "fresh" | "running" | "done"
    forcedMTU,    \* NativeTun.forcedMTU
    pc,           \* position of every caller thread
    result,       \* result of every caller thread's last call
    lateStart,    \* history: the call in progress started after a Close had returned
    elapsed,      \* Read: nanotime()-start, in spin iterations
    drv,          \* condition the driver reports on the next session call
    rxRing,       \* receive ring: packets the driver released, oldest first
    txRing,       \* send ring: packets submitted by Write, oldest first
    delivered,    \* history: number of packets the driver has released
    got,          \* history: packets returned by successful Reads, in order
    adapterCloses,\* history: number of wt.Close() calls
    sessionEnds,  \* history: number of session.End() calls
    eventsCloses, \* history: number of close(tun.events) calls
    useAfterEnd,  \* history: a session or adapter operation ran after the release
    mtuChanges,   \* history: ForceMTU calls that returned and had a changed value
    mtuSent,      \* history: MTU events enqueued
    mtuArg,       \* history: argument of the last ForceMTU call
    signals,      \* history: number of SetEvent(readWait) calls made by Close
    waiters,      \* NativeTun.running: the waiter count of the WaitGroup's state
    sema          \* NativeTun.running: the semaphore Wait sleeps on

vars == <<handle, createResult, wt, session, readWait, events, eventsOpen, close,
          running, once, forcedMTU, pc, result, lateStart, elapsed, drv, rxRing,
          txRing, delivered, got, adapterCloses, sessionEnds, eventsCloses,
          useAfterEnd, mtuChanges, mtuSent, mtuArg, signals, waiters, sema>>

(* ------------------------------ bounds ------------------------------- *)
\* packets the driver releases into the receive ring in one run
MaxPackets == 1
\* ForceMTU calls with a changed value counted in one run
MaxMTUChanges == 11
\* spin iterations of Read that fit in spinloopDuration
MaxSpin == 2

(* ------------------------- program constants ------------------------- *)
\* make(chan Event, 10)
EventCap == 10
\* forcedMTU := 1420
DefaultMTU == 1420
\* EventMTUUpdate = 1 << 2
EventMTUUpdate == 4

\* values of the mtu argument used (0 selects the default in creation)
MTUs == {0, 1280, DefaultMTU}

Reader == "r"
Writer == "w"
LuidCaller == "l"
IOThreads == {Reader, Writer, LuidCaller}
Closers == {"c1", "c2"}
MtuCaller == "m"
Threads == IOThreads \cup Closers \cup {MtuCaller}

NoResult == [n |-> 0, err |-> "none"]
Panic == [n |-> 0, err |-> "panic"]
Res(n, e) == [n |-> n, err |-> e]

\* interface LUID of the adapter (wt.LUID())
AdapterLUID == 7

\* the k-th packet the driver releases: its bytes
PacketOf(k) == [i \in 1..(1 + (k % 2)) |-> k]

DriverConds == {"ok", "full", "eof", "corrupt", "fault"}

Init ==
    /\ handle = FALSE
    /\ createResult = "none"
    /\ wt = "none"
    /\ session = "none"
    /\ readWait = FALSE
    /\ events = <<>>
    /\ eventsOpen = "none"
    /\ close = "nil"
    /\ running = 0
    /\ once = "fresh"
    /\ forcedMTU = 0
    /\ pc = [t \in Threads |-> "idle"]
    /\ result = [t \in Threads |-> NoResult]
    /\ lateStart = [t \in Threads |-> FALSE]
    /\ elapsed = 0
    /\ drv = "ok"
    /\ rxRing = <<>>
    /\ txRing = <<>>
    /\ delivered = 0
    /\ got = <<>>
    /\ adapterCloses = 0
    /\ sessionEnds = 0
    /\ eventsCloses = 0
    /\ useAfterEnd = FALSE
    /\ mtuChanges = 0
    /\ mtuSent = 0
    /\ mtuArg = 0
    /\ signals = 0
    /\ waiters = 0
    /\ sema = 0

(* ----------------------------- creation ------------------------------ *)
\* tun.close.Load().(bool): the outcome for the value v held by tun.close
LoadClose(v) ==
    IF v = "nil" THEN "panic" ELSE IF v = "true" THEN "closed" ELSE "open"

\* CreateTUNWithRequestedGUID(ifname, guid, mtu): what it returns
CreateOutcome(adapterOk, sessionOk) ==
    IF ~adapterOk THEN "err_adapter"
    ELSE IF ~sessionOk THEN "err_session"
    ELSE "ok"

\* CreateEffect without the cleanup of the failed session start: the adapter
\* stays open
CreateEffectLeaksAdapter(adapterOk, sessionOk, mtu) ==
    IF ~adapterOk
    THEN UNCHANGED <<wt, session, eventsOpen, forcedMTU, adapterCloses, eventsCloses>>
    ELSE /\ forcedMTU' = IF mtu > 0 THEN mtu ELSE DefaultMTU
         /\ wt' = "open"
         /\ session' = IF sessionOk THEN "active" ELSE "none"
         /\ eventsOpen' = IF sessionOk THEN "open" ELSE "closed"
         /\ eventsCloses' = IF sessionOk THEN eventsCloses ELSE eventsCloses + 1
         /\ UNCHANGED adapterCloses

\* CreateTUNWithRequestedGUID(ifname, guid, mtu): what it does to the
\* adapter, the session and the fields of the new NativeTun
CreateEffect(adapterOk, sessionOk, mtu) ==
    IF ~adapterOk
    THEN UNCHANGED <<wt, session, eventsOpen, forcedMTU, adapterCloses, eventsCloses>>
    ELSE /\ forcedMTU' = IF mtu > 0 THEN mtu ELSE DefaultMTU
         /\ IF ~sessionOk
            THEN /\ wt' = "closed"
                 /\ adapterCloses' = adapterCloses + 1
                 /\ eventsOpen' = "closed"
                 /\ eventsCloses' = eventsCloses + 1
                 /\ session' = "none"
            ELSE /\ wt' = "open"
                 /\ session' = "active"
                 /\ eventsOpen' = "open"
                 /\ UNCHANGED <<adapterCloses, eventsCloses>>

\* a caller creates the backend with CreateTUNWithRequestedGUID
CreateTUNWithRequestedGUID(adapterOk, sessionOk, mtu) ==
    /\ createResult = "none"
    /\ CreateEffect(adapterOk, sessionOk, mtu)
    /\ createResult' = CreateOutcome(adapterOk, sessionOk)
    /\ handle' = (CreateOutcome(adapterOk, sessionOk) = "ok")
    /\ UNCHANGED <<readWait, events, close, running, waiters, sema, once, pc, result, lateStart,
                   elapsed, drv, rxRing, txRing, delivered, got, sessionEnds,
                   useAfterEnd, mtuChanges, mtuSent, mtuArg, signals>>

\* openTunDev(config): what it returns. The NativeTun is private to the call,
\* so its tun.LUID() reads the close field as creation left it.
OpenOutcome(adapterOk, sessionOk, prefixOk, setIpOk) ==
    IF CreateOutcome(adapterOk, sessionOk) # "ok"
    THEN "dev_" \o CreateOutcome(adapterOk, sessionOk)
    ELSE IF ~prefixOk THEN "dev_err_parse"
    ELSE IF LoadClose(close) = "panic" THEN "dev_panic"
    ELSE IF ~setIpOk THEN "dev_err_setip"
    ELSE "dev_ok"

\* a caller creates the backend with openTunDev
openTunDev(adapterOk, sessionOk, prefixOk, setIpOk) ==
    /\ createResult = "none"
    /\ CreateEffect(adapterOk, sessionOk, 0)
    /\ createResult' = OpenOutcome(adapterOk, sessionOk, prefixOk, setIpOk)
    /\ handle' = (OpenOutcome(adapterOk, sessionOk, prefixOk, setIpOk) = "dev_ok")
    /\ UNCHANGED <<readWait, events, close, running, waiters, sema, once, pc, result, lateStart,
                   elapsed, drv, rxRing, txRing, delivered, got, sessionEnds,
                   useAfterEnd, mtuChanges, mtuSent, mtuArg, signals>>

(* ------------------------- shared call steps ------------------------- *)
\* some Close call has returned
CloseReturned == \E c \in Closers : result[c].err # "none"

\* some Close call has been made
CloseCalled == \E c \in Closers : pc[c] # "idle" \/ result[c].err # "none"

\* tun.running.Add(1) at the entry of Read, Write and LUID. The Add panics
\* when the counter it has raised is still negative, and when it meets a
\* waiter and a counter it has just raised from zero; the deferred Done is
\* not registered yet, so the counter keeps the increment.
Enter(t, first) ==
    /\ handle
    /\ pc[t] = "idle"
    /\ running' = running + 1
    /\ IF running + 1 < 0 \/ (waiters # 0 /\ running + 1 = 1)
       THEN /\ result' = [result EXCEPT ![t] = Panic]
            /\ UNCHANGED pc
       ELSE /\ pc' = [pc EXCEPT ![t] = first]
            /\ result' = [result EXCEPT ![t] = NoResult]
    /\ lateStart' = [lateStart EXCEPT ![t] = CloseReturned]
    /\ UNCHANGED <<waiters, sema>>

\* the call's result is fixed; the deferred Done has not run yet
Return(t, res) ==
    /\ pc' = [pc EXCEPT ![t] = "defer"]
    /\ result' = [result EXCEPT ![t] = res]

\* the variables the deferred Done leaves alone
doneKeeps == <<handle, createResult, wt, session, readWait, events, eventsOpen,
               close, once, forcedMTU, lateStart, elapsed, drv, rxRing, txRing,
               delivered, got, adapterCloses, sessionEnds, eventsCloses,
               useAfterEnd, mtuChanges, mtuSent, mtuArg, signals>>

\* defer tun.running.Done(), that is Add(-1):
\*   "defer"  state.Add(-1); panic if negative; return if v > 0 || w == 0
\*   "dcheck" if wg.state.Load() != state { panic(...) }
\*   "dstore" wg.state.Store(0); Semrelease once per waiter
\* A panic of Done replaces the result of the call.
Done(t) ==
    /\ pc[t] \in {"defer", "dcheck", "dstore"}
    /\ CASE pc[t] = "defer" ->
              /\ running' = running - 1
              /\ IF running - 1 < 0
                 THEN /\ pc' = [pc EXCEPT ![t] = "idle"]
                      /\ result' = [result EXCEPT ![t] = Panic]
                 ELSE IF running - 1 > 0 \/ waiters = 0
                 THEN /\ pc' = [pc EXCEPT ![t] = "idle"]
                      /\ UNCHANGED result
                 ELSE /\ pc' = [pc EXCEPT ![t] = "dcheck"]
                      /\ UNCHANGED result
              /\ UNCHANGED <<waiters, sema>>
         [] pc[t] = "dcheck" ->
              /\ IF running # 0
                 THEN /\ pc' = [pc EXCEPT ![t] = "idle"]
                      /\ result' = [result EXCEPT ![t] = Panic]
                 ELSE /\ pc' = [pc EXCEPT ![t] = "dstore"]
                      /\ UNCHANGED result
              /\ UNCHANGED <<running, waiters, sema>>
         [] pc[t] = "dstore" ->
              /\ running' = 0
              /\ waiters' = 0
              /\ sema' = sema + waiters
              /\ pc' = [pc EXCEPT ![t] = "idle"]
              /\ UNCHANGED result
    /\ UNCHANGED doneKeeps

\* a session or adapter operation: touching a released session is a use after free
Touch == useAfterEnd' = (useAfterEnd \/ session = "ended")

creationVars == <<handle, createResult>>
resourceVars == <<wt, session, eventsOpen, adapterCloses, sessionEnds, eventsCloses,
                  signals>>
mtuVars == <<forcedMTU, events, mtuChanges, mtuSent, mtuArg>>
ringVars == <<rxRing, txRing, delivered, got>>

(* ------------------------------- Read -------------------------------- *)
\* caller buffers of Read: <<len(buff), offset>>
ReadArgs == {<<2, 0>>, <<2, 1>>, <<1, 0>>}

\* Min of two numbers
Min(a, b) == IF a < b THEN a ELSE b

\* tun.session.ReceivePacket(): the error it returns
ReceiveError ==
    IF drv = "eof" THEN "ERROR_HANDLE_EOF"
    ELSE IF drv = "corrupt" THEN "ERROR_INVALID_DATA"
    ELSE IF drv = "fault" THEN "other"
    ELSE IF rxRing = <<>> THEN "ERROR_NO_MORE_ITEMS"
    ELSE "nil"

\* Read enters: tun.running.Add(1); defer tun.running.Done()
ReadEnter(t) ==
    /\ Enter(t, "retry")
    /\ UNCHANGED <<creationVars, resourceVars, mtuVars, ringVars, readWait, close,
                   once, elapsed, drv, useAfterEnd>>

\* retry: if tun.close.Load().(bool) { return 0, os.ErrClosed }; start := nanotime()
ReadRetryCheck(t) ==
    /\ IF LoadClose(close) = "panic" THEN Return(t, Panic) /\ UNCHANGED elapsed
       ELSE IF LoadClose(close) = "closed"
       THEN Return(t, Res(0, "Closed")) /\ UNCHANGED elapsed
       ELSE /\ elapsed' = 0
            /\ pc' = [pc EXCEPT ![t] = "loop"]
            /\ UNCHANGED result
    /\ UNCHANGED <<ringVars, readWait, useAfterEnd, session>>

\* for { if tun.close.Load().(bool) { return 0, os.ErrClosed } ...
ReadLoopCheck(t) ==
    /\ IF LoadClose(close) = "panic" THEN Return(t, Panic)
       ELSE IF LoadClose(close) = "closed" THEN Return(t, Res(0, "Closed"))
       ELSE pc' = [pc EXCEPT ![t] = "recv"] /\ UNCHANGED result
    /\ UNCHANGED <<ringVars, readWait, useAfterEnd, session, elapsed>>

\* packet, err := tun.session.ReceivePacket(); switch err { ... }
ReadReceive(t) ==
    /\ Touch
    /\ IF ReceiveError = "nil"
       THEN \E a \in ReadArgs :
              \* copy(buff[offset:], packet); ReleaseReceivePacket(packet)
              /\ Return(t, Res(Len(Head(rxRing)), "nil"))
              /\ got' = Append(got, SubSeq(Head(rxRing), 1,
                                           Min(a[1] - a[2], Len(Head(rxRing)))))
              /\ rxRing' = Tail(rxRing)
              /\ UNCHANGED <<elapsed, txRing, delivered>>
       ELSE IF ReceiveError = "ERROR_NO_MORE_ITEMS"
       THEN /\ IF elapsed >= MaxSpin
               THEN pc' = [pc EXCEPT ![t] = "wait"] /\ UNCHANGED elapsed
               ELSE pc' = [pc EXCEPT ![t] = "loop"] /\ elapsed' = elapsed + 1
            /\ UNCHANGED <<result, ringVars>>
       ELSE /\ Return(t, IF ReceiveError = "ERROR_HANDLE_EOF" THEN Res(0, "Closed")
                         ELSE IF ReceiveError = "ERROR_INVALID_DATA"
                         THEN Res(0, "RingCorrupt")
                         ELSE Res(0, "ReadFailed"))
            /\ UNCHANGED <<elapsed, ringVars>>
    /\ UNCHANGED <<readWait, session>>

\* windows.WaitForSingleObject(tun.readWait, windows.INFINITE); goto retry
ReadWait(t) ==
    /\ readWait
    /\ readWait' = FALSE
    /\ pc' = [pc EXCEPT ![t] = "retry"]
    /\ UNCHANGED <<result, ringVars, useAfterEnd, session, elapsed>>

\* one step of the body of Read. Every position after the first check needs
\* that check to have read false from tun.close.
ReadStep(t) ==
    /\ pc[t] \in {"retry", "loop", "recv", "wait"}
    /\ CASE pc[t] = "retry" -> ReadRetryCheck(t)
         [] pc[t] = "loop" -> ReadLoopCheck(t)
         [] pc[t] = "recv" -> ReadReceive(t)
         [] pc[t] = "wait" -> ReadWait(t)
    /\ UNCHANGED <<creationVars, wt, eventsOpen, adapterCloses, sessionEnds,
                   eventsCloses, signals, mtuVars, close, running, waiters, sema, once, lateStart,
                   drv>>

(* ------------------------------- Write ------------------------------- *)
\* the bytes buff[offset:] of the Write calls made
Payloads == {<<5>>, <<5, 6>>}

\* tun.session.AllocateSendPacket(packetSize): the error it returns
AllocateError ==
    IF drv = "eof" THEN "ERROR_HANDLE_EOF"
    ELSE IF drv = "full" THEN "ERROR_BUFFER_OVERFLOW"
    ELSE IF drv = "fault" THEN "other"
    ELSE "nil"

\* Write enters: tun.running.Add(1); defer tun.running.Done()
WriteEnter(t) ==
    /\ Enter(t, "wcheck")
    /\ UNCHANGED <<creationVars, resourceVars, mtuVars, ringVars, readWait, close,
                   once, elapsed, drv, useAfterEnd>>

\* WriteCheck that first waits on readWait, as Read does when it parks
WriteCheckParks(t) ==
    /\ readWait
    /\ IF LoadClose(close) = "panic" THEN Return(t, Panic)
       ELSE IF LoadClose(close) = "closed" THEN Return(t, Res(0, "Closed"))
       ELSE pc' = [pc EXCEPT ![t] = "alloc"] /\ UNCHANGED result
    /\ UNCHANGED <<ringVars, useAfterEnd>>

\* if tun.close.Load().(bool) { return 0, os.ErrClosed }
WriteCheck(t) ==
    /\ IF LoadClose(close) = "panic" THEN Return(t, Panic)
       ELSE IF LoadClose(close) = "closed" THEN Return(t, Res(0, "Closed"))
       ELSE pc' = [pc EXCEPT ![t] = "alloc"] /\ UNCHANGED result
    /\ UNCHANGED <<ringVars, useAfterEnd>>

\* packetSize := len(buff) - offset; AllocateSendPacket; copy; SendPacket
WriteSend(t) ==
    /\ Touch
    /\ IF AllocateError = "nil"
       THEN \E p \in Payloads :
              /\ txRing' = Append(txRing, p)
              /\ Return(t, Res(Len(p), "nil"))
       ELSE /\ Return(t, IF AllocateError = "ERROR_HANDLE_EOF" THEN Res(0, "Closed")
                         ELSE IF AllocateError = "ERROR_BUFFER_OVERFLOW"
                         THEN Res(0, "nil")
                         ELSE Res(0, "WriteFailed"))
            /\ UNCHANGED txRing
    /\ UNCHANGED <<rxRing, delivered, got>>

\* one step of the body of Write
WriteStep(t) ==
    /\ pc[t] \in {"wcheck", "alloc"}
    /\ CASE pc[t] = "wcheck" -> WriteCheck(t)
         [] pc[t] = "alloc" -> WriteSend(t)
    /\ UNCHANGED <<creationVars, resourceVars, mtuVars, readWait, close, running, waiters, sema,
                   once, lateStart, elapsed, drv>>

(* ------------------------------- LUID -------------------------------- *)
\* LUID enters: tun.running.Add(1); defer tun.running.Done()
LUIDEnter(t) ==
    /\ Enter(t, "lcheck")
    /\ UNCHANGED <<creationVars, resourceVars, mtuVars, ringVars, readWait, close,
                   once, elapsed, drv, useAfterEnd>>

\* if tun.close.Load().(bool) { return 0 }; return tun.wt.LUID()
LUIDStep(t) ==
    /\ pc[t] = "lcheck"
    /\ IF LoadClose(close) = "panic" THEN Return(t, Panic) /\ UNCHANGED useAfterEnd
       ELSE IF LoadClose(close) = "closed"
       THEN Return(t, Res(0, "nil")) /\ UNCHANGED useAfterEnd
       ELSE /\ useAfterEnd' = (useAfterEnd \/ wt = "closed")
            /\ Return(t, Res(AdapterLUID, "nil"))
    /\ UNCHANGED <<creationVars, resourceVars, mtuVars, ringVars, readWait, close,
                   running, waiters, sema, once, lateStart, elapsed, drv>>

(* ------------------------------- Close ------------------------------- *)
\* tun.closeOnce.Do(func() {...}): the first caller runs the function, a caller
\* that finds it running waits for it, a later caller returns nil at once
CloseEnter(c) ==
    /\ handle
    /\ pc[c] = "idle"
    /\ IF once = "done"
       THEN /\ result' = [result EXCEPT ![c] = Res(0, "nil")]
            /\ UNCHANGED <<pc, once>>
       ELSE IF once = "fresh"
       THEN /\ once' = "running"
            /\ pc' = [pc EXCEPT ![c] = "store"]
            /\ UNCHANGED result
       ELSE /\ pc' = [pc EXCEPT ![c] = "oncewait"]
            /\ UNCHANGED <<result, once>>
    /\ UNCHANGED <<creationVars, resourceVars, mtuVars, ringVars, readWait, close,
                   running, waiters, sema, lateStart, elapsed, drv, useAfterEnd>>

\* a Do that found the function running returns when it has finished
CloseOnceWait(c) ==
    /\ pc[c] = "oncewait"
    /\ once = "done"
    /\ pc' = [pc EXCEPT ![c] = "idle"]
    /\ result' = [result EXCEPT ![c] = Res(0, "nil")]
    /\ UNCHANGED <<creationVars, resourceVars, mtuVars, ringVars, readWait, close,
                   running, waiters, sema, once, lateStart, elapsed, drv, useAfterEnd>>

\* tun.close.Store(true)
CloseStore(c) ==
    /\ pc[c] = "store"
    /\ close' = "true"
    /\ pc' = [pc EXCEPT ![c] = "setevent"]
    /\ UNCHANGED <<creationVars, resourceVars, mtuVars, ringVars, readWait, result,
                   running, waiters, sema, once, lateStart, elapsed, drv, useAfterEnd>>

\* CloseSetEvent with the SetEvent call left out
CloseSetEventMissing(c) ==
    /\ pc[c] = "setevent"
    /\ pc' = [pc EXCEPT ![c] = "wgwait"]
    /\ UNCHANGED <<creationVars, resourceVars, mtuVars, ringVars, readWait, close,
                   result, running, waiters, sema, once, lateStart, elapsed, drv, useAfterEnd>>

\* windows.SetEvent(tun.readWait)
CloseSetEvent(c) ==
    /\ pc[c] = "setevent"
    /\ readWait' = TRUE
    /\ signals' = signals + 1
    /\ pc' = [pc EXCEPT ![c] = "wgwait"]
    /\ UNCHANGED <<creationVars, wt, session, eventsOpen, adapterCloses, sessionEnds,
                   eventsCloses, mtuVars, ringVars, close, result, running, waiters, sema, once,
                   lateStart, elapsed, drv, useAfterEnd>>

\* CloseWait that does not wait for the counter to drain
CloseWaitNoDrain(c) ==
    /\ pc[c] \in {"wgwait", "wgpark", "wgpanic"}
    /\ pc' = [pc EXCEPT ![c] = "end"]
    /\ UNCHANGED <<creationVars, resourceVars, mtuVars, ringVars, readWait, close,
                   result, running, waiters, sema, once, lateStart, elapsed, drv,
                   useAfterEnd>>

\* tun.running.Wait():
\*   "wgwait" state.Load(); return if v == 0; else CompareAndSwap(state, state+1)
\*   "wgpark" Semacquire; if wg.state.Load() != 0 { panic(...) }; return
\*   "wgpanic" the panic leaves Close through closeOnce.Do, whose deferred
\*             calls mark the Once done and unlock it
CloseWait(c) ==
    /\ pc[c] \in {"wgwait", "wgpark", "wgpanic"}
    /\ CASE pc[c] = "wgwait" ->
              /\ IF running = 0
                 THEN pc' = [pc EXCEPT ![c] = "end"] /\ UNCHANGED waiters
                 ELSE pc' = [pc EXCEPT ![c] = "wgpark"] /\ waiters' = waiters + 1
              /\ UNCHANGED <<sema, result, once>>
         [] pc[c] = "wgpark" ->
              /\ sema > 0
              /\ sema' = sema - 1
              /\ IF running # 0 \/ waiters # 0
                 THEN pc' = [pc EXCEPT ![c] = "wgpanic"]
                 ELSE pc' = [pc EXCEPT ![c] = "end"]
              /\ UNCHANGED <<waiters, result, once>>
         [] pc[c] = "wgpanic" ->
              /\ pc' = [pc EXCEPT ![c] = "idle"]
              /\ result' = [result EXCEPT ![c] = Panic]
              /\ once' = "done"
              /\ UNCHANGED <<waiters, sema>>
    /\ UNCHANGED <<creationVars, resourceVars, mtuVars, ringVars, readWait, close,
                   running, lateStart, elapsed, drv, useAfterEnd>>

\* tun.session.End()
CloseSessionEnd(c) ==
    /\ pc[c] = "end"
    /\ session' = "ended"
    /\ sessionEnds' = sessionEnds + 1
    /\ pc' = [pc EXCEPT ![c] = "wtclose"]
    /\ UNCHANGED <<creationVars, wt, eventsOpen, adapterCloses, eventsCloses, signals,
                   mtuVars, ringVars, readWait, close, result, running, waiters, sema, once,
                   lateStart, elapsed, drv, useAfterEnd>>

\* if tun.wt != nil { tun.wt.Close() }
CloseAdapter(c) ==
    /\ pc[c] = "wtclose"
    /\ IF wt # "none"
       THEN wt' = "closed" /\ adapterCloses' = adapterCloses + 1
       ELSE UNCHANGED <<wt, adapterCloses>>
    /\ pc' = [pc EXCEPT ![c] = "chclose"]
    /\ UNCHANGED <<creationVars, session, eventsOpen, sessionEnds, eventsCloses,
                   signals, mtuVars, ringVars, readWait, close, result, running, waiters, sema,
                   once, lateStart, elapsed, drv, useAfterEnd>>

\* close(tun.events); the function ends, Do marks the Once done, Close returns err
CloseEvents(c) ==
    /\ pc[c] = "chclose"
    /\ eventsCloses' = eventsCloses + 1
    /\ eventsOpen' = "closed"
    /\ result' = [result EXCEPT ![c] = IF eventsOpen = "closed" THEN Panic
                                       ELSE Res(0, "nil")]
    /\ once' = "done"
    /\ pc' = [pc EXCEPT ![c] = "idle"]
    /\ UNCHANGED <<creationVars, wt, session, adapterCloses, sessionEnds, signals,
                   mtuVars, ringVars, readWait, close, running, waiters, sema, lateStart, elapsed,
                   drv, useAfterEnd>>

\* the steps of Close
Close(c) ==
    \/ CloseEnter(c)
    \/ CloseOnceWait(c)
    \/ CloseStore(c)
    \/ CloseSetEvent(c)
    \/ CloseWait(c)
    \/ CloseSessionEnd(c)
    \/ CloseAdapter(c)
    \/ CloseEvents(c)

(* ------------------------------ driver ------------------------------- *)
\* the driver releases the next packet into the receive ring and signals readWait
DriverDeliver ==
    /\ session = "active"
    /\ delivered < MaxPackets
    /\ delivered' = delivered + 1
    /\ rxRing' = Append(rxRing, PacketOf(delivered + 1))
    /\ readWait' = TRUE
    /\ UNCHANGED <<creationVars, resourceVars, mtuVars, txRing, got, close, running, waiters, sema,
                   once, pc, result, lateStart, elapsed, drv, useAfterEnd>>

\* the condition the driver reports changes
DriverSet(c) ==
    /\ session = "active"
    /\ c # drv
    /\ drv' = c
    /\ UNCHANGED <<creationVars, resourceVars, mtuVars, ringVars, readWait, close,
                   running, waiters, sema, once, pc, result, lateStart, elapsed, useAfterEnd>>

(* ----------------------------- ForceMTU ------------------------------ *)
\* ForceMTUStore that sends the event whether or not the value changed
ForceMTUStoreAlways(t, mtu) ==
    /\ handle
    /\ pc[t] = "idle"
    /\ mtuChanges < MaxMTUChanges
    /\ mtuArg' = mtu
    /\ forcedMTU' = mtu
    /\ pc' = [pc EXCEPT ![t] = "send"]
    /\ result' = [result EXCEPT ![t] = NoResult]
    /\ mtuChanges' = IF forcedMTU # mtu THEN mtuChanges + 1 ELSE mtuChanges
    /\ UNCHANGED <<creationVars, resourceVars, events, mtuSent, ringVars, readWait,
                   close, running, waiters, sema, once, lateStart, elapsed, drv, useAfterEnd>>

\* update := tun.forcedMTU != mtu; tun.forcedMTU = mtu; if update { ... }
ForceMTUStore(t, mtu) ==
    /\ handle
    /\ pc[t] = "idle"
    /\ mtuChanges < MaxMTUChanges
    /\ mtuArg' = mtu
    /\ forcedMTU' = mtu
    /\ IF forcedMTU # mtu
       THEN /\ pc' = [pc EXCEPT ![t] = "send"]
            /\ result' = [result EXCEPT ![t] = NoResult]
            /\ mtuChanges' = mtuChanges + 1
       ELSE /\ result' = [result EXCEPT ![t] = Res(0, "nil")]
            /\ UNCHANGED <<pc, mtuChanges>>
    /\ UNCHANGED <<creationVars, resourceVars, events, mtuSent, ringVars, readWait,
                   close, running, waiters, sema, once, lateStart, elapsed, drv, useAfterEnd>>

\* tun.events <- EventMTUUpdate (result.n records the call's update flag)
ForceMTUSend(t) ==
    /\ pc[t] = "send"
    /\ IF eventsOpen = "closed"
       THEN /\ result' = [result EXCEPT ![t] = Panic]
            /\ UNCHANGED <<events, mtuSent>>
       ELSE /\ Len(events) < EventCap
            /\ events' = Append(events, EventMTUUpdate)
            /\ mtuSent' = mtuSent + 1
            /\ result' = [result EXCEPT ![t] = Res(1, "nil")]
    /\ pc' = [pc EXCEPT ![t] = "idle"]
    /\ UNCHANGED <<creationVars, resourceVars, forcedMTU, mtuChanges, mtuArg, ringVars,
                   readWait, close, running, waiters, sema, once, lateStart, elapsed, drv,
                   useAfterEnd>>

\* a supervisor receives one event from tun.Events()
Consume ==
    /\ handle
    /\ events # <<>>
    /\ events' = Tail(events)
    /\ UNCHANGED <<creationVars, resourceVars, forcedMTU, mtuChanges, mtuSent, mtuArg,
                   ringVars, readWait, close, running, waiters, sema, once, pc, result, lateStart,
                   elapsed, drv, useAfterEnd>>

(* -------------------------- specifications --------------------------- *)
\* creation, one reader, one writer, one LUID caller, two closers and the driver
Next ==
    \/ \E a, s \in BOOLEAN : CreateTUNWithRequestedGUID(a, s, 0)
    \/ \E a, s, p, i \in BOOLEAN : openTunDev(a, s, p, i)
    \/ ReadEnter(Reader)
    \/ ReadStep(Reader)
    \/ WriteEnter(Writer)
    \/ WriteStep(Writer)
    \/ LUIDEnter(LuidCaller)
    \/ LUIDStep(LuidCaller)
    \/ \E t \in IOThreads : Done(t)
    \/ \E c \in Closers : Close(c)
    \/ DriverDeliver
    \/ \E c \in DriverConds : DriverSet(c)

Spec == Init /\ [][Next]_vars

\* creation, one ForceMTU caller, one closer and the consumer of the events
NextMTU ==
    \/ \E a, s \in BOOLEAN, mtu \in MTUs : CreateTUNWithRequestedGUID(a, s, mtu)
    \/ \E mtu \in MTUs \ {0} : ForceMTUStore(MtuCaller, mtu)
    \/ ForceMTUSend(MtuCaller)
    \/ Consume
    \/ \E c \in Closers : Close(c)

SpecMTU == Init /\ [][NextMTU]_vars

\* creation, one reader, one writer and the closers
NextClose ==
    \/ \E a, s \in BOOLEAN : CreateTUNWithRequestedGUID(a, s, 0)
    \/ ReadEnter(Reader)
    \/ ReadStep(Reader)
    \/ WriteEnter(Writer)
    \/ WriteStep(Writer)
    \/ \E t \in {Reader, Writer} : Done(t)
    \/ \E c \in Closers : Close(c)

\* fair scheduling: a thread that is inside a call and can take a step takes
\* one; whether a thread makes a call is its own choice.
FairClose ==
    /\ WF_vars(ReadStep(Reader))
    /\ WF_vars(WriteStep(Writer))
    /\ \A t \in {Reader, Writer} : WF_vars(Done(t))
    /\ \A c \in Closers :
         /\ WF_vars(CloseOnceWait(c) \/ CloseStore(c) \/ CloseSetEvent(c)
                    \/ CloseSessionEnd(c) \/ CloseAdapter(c) \/ CloseEvents(c))
         /\ WF_vars(CloseWait(c))

SpecClose == Init /\ [][NextClose]_vars /\ FairClose

(* ------------------------------ claims ------------------------------- *)
\* a Read, Write or LUID call is in flight
InFlight(t) == pc[t] # "idle"

\* what a call returns when its close-flag check reads true
ClosedResult(t) == IF t = LuidCaller THEN Res(0, "nil") ELSE Res(0, "Closed")

\* C1: a Read that is in flight with an empty ring while Close has been called
\* ends with the Closed error: whenever such a Read fixes its result, the
\* result is (0, Closed).
C1_ReadAtCloseReturnsClosed ==
    [][(/\ InFlight(Reader)
        /\ CloseCalled
        /\ rxRing = <<>>
        /\ drv = "ok"
        /\ pc'[Reader] = "defer"
        /\ pc[Reader] # "defer")
       => result'[Reader] = Res(0, "Closed")]_vars

\* C2 as stated: no session or adapter operation runs after the release, no
\* call that read the flag as not set is in flight after the release, and the
\* session is released only in a state where the in-flight counter is zero.
C2_ReleasedOnlyAtZero ==
    /\ [](~useAfterEnd)
    /\ [](session = "ended" =>
            \A t \in IOThreads :
                \/ pc[t] \in {"idle", "retry", "wcheck", "lcheck"}
                \/ pc[t] = "defer" /\ result[t] = ClosedResult(t))
    /\ [][(session = "active" /\ session' = "ended") => running = 0]_vars

\* C2 amended: no session or adapter operation runs after the release, and
\* once the session is released the flag is set and every call in flight is
\* one that has not read the flag yet or has read it as set (so a call that
\* read the flag as not set has finished, its Done included, before the
\* release); the counter itself need not be zero at the release.
C2_NoUseAfterRelease ==
    /\ ~useAfterEnd
    /\ session = "ended" =>
         /\ close = "true"
         /\ \A t \in IOThreads :
              \/ pc[t] \in {"idle", "retry", "wcheck", "lcheck"}
              \/ pc[t] = "defer" /\ result[t] = ClosedResult(t)

\* C2 witness: the session was released while a call that entered late is in
\* flight, after a Read that raced Close has finished.
C2_Witness ==
    /\ session = "ended"
    /\ running > 0
    /\ pc[Writer] = "wcheck"
    /\ pc[Reader] = "idle"
    /\ result[Reader] = Panic

\* C3: however many Close calls are made, the session is ended at most once,
\* the adapter closed at most once and the event channel closed at most once;
\* every Close call that has returned returned nil, and by then each of the
\* three has happened exactly once.
C3_CloseOnce ==
    /\ sessionEnds <= 1
    /\ adapterCloses <= 1
    /\ eventsCloses <= 1
    /\ \A c \in Closers :
         result[c].err # "none" =>
           /\ result[c] = Res(0, "nil")
           /\ sessionEnds = 1
           /\ adapterCloses = 1
           /\ eventsCloses = 1

\* C4: a Read or Write that started after a Close call had returned is only
\* ever at its first close-flag check or finished with (0, Closed): it makes
\* no session call and never waits on readWait.
C4_ClosedAfterClose ==
    \A t \in {Reader, Writer} :
        lateStart[t] =>
          /\ pc[t] \in {"idle", "retry", "wcheck", "defer"}
          /\ pc[t] \in {"idle", "defer"} => result[t] = Res(0, "Closed")

\* C5: on a backend on which Close was never called, with a healthy driver,
\* a Read made while the ring holds a packet passes its close-flag checks and
\* returns (len(head), nil) releasing that slot, and a Write passes its
\* close-flag check and returns (len, nil) after submitting one packet.
C5_OpenCallsSucceed ==
    [][(~CloseCalled /\ drv = "ok") =>
        /\ (pc[Reader] = "retry" /\ rxRing # <<>> /\ pc'[Reader] # "retry")
             => pc'[Reader] = "loop"
        /\ (pc[Reader] = "loop" /\ rxRing # <<>> /\ pc'[Reader] # "loop")
             => pc'[Reader] = "recv"
        /\ (pc[Reader] = "recv" /\ rxRing # <<>> /\ pc'[Reader] # "recv")
             => /\ result'[Reader] = Res(Len(Head(rxRing)), "nil")
                /\ rxRing' = Tail(rxRing)
        /\ (pc[Writer] = "wcheck" /\ pc'[Writer] # "wcheck")
             => pc'[Writer] = "alloc"
        /\ (pc[Writer] = "alloc" /\ pc'[Writer] # "alloc")
             => /\ Len(txRing') = Len(txRing) + 1
                /\ result'[Writer] = Res(Len(txRing'[Len(txRing')]), "nil")]_vars

\* C6: from creation on the close flag holds a boolean: false until the
\* teardown has stored true, true from then on.
C6_CloseFlagBoolean ==
    createResult = "ok" =>
        close = IF \/ once = "done"
                   \/ \E c \in Closers :
                        pc[c] \in {"setevent", "wgwait", "wgpark", "wgpanic", "end",
                                  "wtclose", "chclose"}
                THEN "true" ELSE "false"

\* C7: a Write step taken on a backend on which Close was never called, while
\* the driver reports the ring full, submits nothing and either passes the
\* close-flag check or fixes the result (0, nil).
C7_RingFullWriteDrops ==
    [][(/\ ~CloseCalled
        /\ drv = "full"
        /\ pc[Writer] \in {"wcheck", "alloc"}
        /\ pc'[Writer] # pc[Writer])
       => /\ txRing' = txRing
          /\ pc'[Writer] = "alloc" \/ result'[Writer] = Res(0, "nil")]_vars

\* C8: while the event channel is open, the number of MTU events enqueued
\* equals the number of ForceMTU calls whose argument differed from the stored
\* MTU (less the one call that is still at its send), and a ForceMTU call that
\* has returned left its argument as the stored MTU.
C8_OneEventPerChange ==
    eventsOpen = "open" =>
        /\ pc[MtuCaller] = "idle" => mtuSent = mtuChanges
        /\ pc[MtuCaller] = "send" => mtuSent = mtuChanges - 1
        /\ (pc[MtuCaller] = "idle" /\ result[MtuCaller].err = "nil")
             => forcedMTU = mtuArg

\* C8 witness: several changing calls have returned, each with its event
\* enqueued, and the last call made was one with the current value.
C8_Witness ==
    /\ eventsOpen = "open"
    /\ pc[MtuCaller] = "idle"
    /\ result[MtuCaller] = Res(0, "nil")
    /\ mtuChanges = 3
    /\ mtuSent = 3
    /\ Len(events) = 3
    /\ forcedMTU = mtuArg

\* C9: a ForceMTU call that has reached its send can always complete it,
\* whatever the event channel holds: it is never suspended.
C9_ForceMTUNeverBlocks ==
    pc[MtuCaller] = "send" => ENABLED ForceMTUSend(MtuCaller)

\* C10: when openTunDev has returned the error of an address prefix that does
\* not parse, no adapter and no session of that call remain allocated.
C10_ParseFailureReleases ==
    createResult = "dev_err_parse" => wt # "open" /\ session # "active"

\* C11: when creation has returned the error of a failed session start, the
\* adapter it created has been closed, exactly once, no session exists and the
\* caller holds no backend handle.
C11_SessionFailureReleasesAdapter ==
    createResult \in {"err_session", "dev_err_session"} =>
        /\ wt = "closed"
        /\ adapterCloses = 1
        /\ session = "none"
        /\ ~handle

\* C11 witness: CreateTUNWithRequestedGUID has returned the session-start error.
C11_Witness ==
    /\ createResult = "err_session"
    /\ wt = "closed"
    /\ adapterCloses = 1

\* a call of thread t fixes its result in this step
Returns(t) == pc[t] # "defer" /\ pc'[t] = "defer"

\* C13: the teardown runs in the order of the source. By its effects: the
\* event channel is closed only after the adapter, the adapter only after the
\* session has been ended, the session only after the flag was set; and by
\* its steps: SetEvent is called with the flag set, the wait ends only with
\* the flag set, the signal sent and the counter at zero, the session is
\* ended only after the signal and with adapter and channel still open, the
\* adapter is closed with the channel still open.
C13_TeardownOrder ==
    /\ [](handle =>
            /\ eventsOpen = "closed" => wt = "closed"
            /\ wt = "closed" => session = "ended"
            /\ session = "ended" => close = "true" /\ signals = 1
            /\ signals >= 1 => close = "true")
    /\ [][(\E c \in Closers : pc[c] \in {"wgwait", "wgpark"} /\ pc'[c] = "end")
          => running = 0 /\ close = "true" /\ signals = 1 /\ session = "active"]_vars
    /\ [][(session = "active" /\ session' = "ended")
          => wt = "open" /\ eventsOpen = "open"]_vars
    /\ [][(handle /\ wt = "open" /\ wt' = "closed")
          => session = "ended" /\ eventsOpen = "open"]_vars

\* C13 witness: a teardown has run to its end.
C13_Witness ==
    /\ handle
    /\ once = "done"
    /\ close = "true"
    /\ signals = 1
    /\ session = "ended"
    /\ wt = "closed"
    /\ eventsOpen = "closed"

\* C14: Write never waits. A Write in flight always has a step of its own to
\* take, whatever Close, Read, LUID and the driver do and whatever the ring's
\* state; its steps only go forward (close-flag check, then at most one
\* allocation attempt, then the steps of the deferred Done), never back to
\* an earlier position and never through a wait on readWait, so the call
\* ends after a bounded number of its own steps.
C14_WriteNeverWaits ==
    /\ [](InFlight(Writer) => ENABLED (WriteStep(Writer) \/ Done(Writer)))
    /\ [][pc'[Writer] # pc[Writer]
          => <<pc[Writer], pc'[Writer]>> \in
                {<<"idle", "wcheck">>, <<"wcheck", "alloc">>, <<"wcheck", "defer">>,
                 <<"alloc", "defer">>, <<"defer", "idle">>, <<"defer", "dcheck">>,
                 <<"dcheck", "idle">>, <<"dcheck", "dstore">>,
                 <<"dstore", "idle">>}]_vars

\* C14 witness: a Write call has ended while the driver reports a full ring
\* and a Read is in flight.
C14_Witness ==
    /\ pc[Writer] = "idle"
    /\ result[Writer] # NoResult
    /\ drv = "full"
    /\ InFlight(Reader)

\* the result the source gives for a driver error of ReceivePacket
ReadErrorResult ==
    IF drv = "eof" THEN Res(0, "Closed")
    ELSE IF drv = "corrupt" THEN Res(0, "RingCorrupt")
    ELSE Res(0, "ReadFailed")

\* a call that has entered and has not yet run the decrement of its Done
Counted(t) == pc[t] \notin {"idle", "dcheck", "dstore"}

\* C16: the in-flight counter equals the number of Read, Write and LUID
\* calls that have entered and not yet run the decrement of their deferred
\* Done, so it is never negative and is zero when no such call is executing;
\* it goes up by one exactly when a call enters, before the call's first
\* close-flag check, and down by one exactly when a call leaves, whatever its
\* result.
C16_CounterCountsCalls ==
    /\ [](/\ running = Cardinality({t \in IOThreads : Counted(t)})
          /\ running >= 0)
    /\ [][/\ running' # running
             => \E t \in IOThreads :
                   \/ /\ pc[t] = "idle" /\ pc'[t] \in {"retry", "wcheck", "lcheck"}
                      /\ running' = running + 1
                   \/ /\ pc[t] = "defer" /\ pc'[t] # "defer"
                      /\ running' = running - 1
          /\ \A t \in IOThreads :
                (pc[t] = "defer" /\ pc'[t] # "defer") => running' = running - 1]_vars

\* C17: Read's driver-error mapping on an open backend. While the driver
\* reports end of session, a corrupt ring or another error, a Read that
\* returns on a backend no Close was called on returns (0, Closed),
\* (0, RingCorrupt) or (0, ReadFailed) and takes no packet; and Read goes
\* back from a receive attempt to another one only after "no data yet".
C17_ReadErrorMapping ==
    /\ [][(Returns(Reader) /\ ~CloseCalled /\ drv \in {"eof", "corrupt", "fault"})
          => /\ result'[Reader] = ReadErrorResult
             /\ rxRing' = rxRing /\ got' = got]_vars
    /\ [][(pc[Reader] = "recv" /\ pc'[Reader] \in {"loop", "wait"})
          => ReceiveError = "ERROR_NO_MORE_ITEMS"]_vars

\* C18: park and re-check in Read. While the ring is empty, the driver
\* healthy and no Close called, a Read does not return; it moves to the wait
\* on readWait only after the spin threshold; after the wait it goes to the
\* close-flag check of the retry label; and it makes a receive attempt only
\* from the close-flag check of the loop, which a Read woken by Close does
\* not pass.
C18_ParkAndRecheck ==
    /\ [][Returns(Reader) => ~(rxRing = <<>> /\ drv = "ok" /\ ~CloseCalled)]_vars
    /\ [][(pc[Reader] # "wait" /\ pc'[Reader] = "wait")
          => pc[Reader] = "recv" /\ elapsed >= MaxSpin]_vars
    /\ [][(pc[Reader] = "wait" /\ pc'[Reader] # "wait") => pc'[Reader] = "retry"]_vars
    /\ [][(pc[Reader] # "recv" /\ pc'[Reader] = "recv")
          => pc[Reader] = "loop" /\ close = "false"]_vars

\* C19: no Close call returns before the teardown is complete: once a Close
\* has returned, the Once is done, the session is ended, adapter and event
\* channel are closed, and every call still in flight entered after the flag
\* was set (the calls before it have drained); and every Close call that has
\* been made returns.
C19_CloseReturnsAfterTeardown ==
    /\ [](CloseReturned =>
            /\ once = "done"
            /\ session = "ended" /\ wt = "closed" /\ eventsOpen = "closed"
            /\ \A t \in {Reader, Writer} :
                  InFlight(t) => \/ pc[t] \in {"retry", "wcheck"}
                                 \/ result[t] = ClosedResult(t))
    /\ \A c \in Closers : (pc[c] # "idle") ~> (pc[c] = "idle")

\* C20: nothing is enqueued on the event channel once it has been closed:
\* ForceMTU executes its send only on an open channel, the channel's content
\* grows only while it is open, and the channel is closed at most once.
C20_NoSendOnClosedQueue ==
    /\ [][(pc[MtuCaller] = "send" /\ pc'[MtuCaller] = "idle")
          => eventsOpen = "open"]_vars
    /\ [][Len(events') > Len(events) => eventsOpen = "open"]_vars
    /\ [](eventsCloses <= 1)

====
